---- MODULE Spec2Model ----
(***************************************************************************)
(* A model of src/mazes.py: the Cell / Grid graph model and the five maze  *)
(* generation algorithms (binary_tree, sidewinder, aldous_broder, wilson,  *)
(* recursive_backtracker).                                                 *)
(*                                                                         *)
(* A cell is the pair <<row, column>>; Python's None is the pair None.     *)
(* A cell's link table (the dict Cell.links) is a function whose DOMAIN is *)
(* the set of keys of the dict and whose values are the stored booleans;   *)
(* links[c] is the table of cell c.                                        *)
(***************************************************************************)
EXTENDS Integers, Sequences, FiniteSets, TLC

\* ---------------------------------------------------------------- bounds
\* Free link / unlink calls on any pair of cells (SpecLink).
LinkMaxCells == 4
MaxCalls == 2
\* Link / unlink calls on adjacent cells and unlink_all (SpecAdj).
AdjMaxCells == 5

\* ------------------------------------------------------------ cells, grid
None == <<-1, -1>>

Cells(nr, nc) == (0 .. nr - 1) \X (0 .. nc - 1)

\* Grid.size
size(nr, nc) == nc * nr

\* The row-major order of the loops `for i in range(num_rows): for j in
\* range(num_columns)`: the k-th cell visited, k = 0 .. size-1.
RowMajor(k, nc) == <<k \div nc, k % nc>>

\* The four neighbour attributes as connect_cells leaves them: assigned where
\* the loop's condition holds, None (from Cell.__init__) elsewhere.
NorthOf(nr, nc) == [c \in Cells(nr, nc) |-> IF c[1] # 0 THEN <<c[1] - 1, c[2]>> ELSE None]
SouthOf(nr, nc) == [c \in Cells(nr, nc) |-> IF c[1] # nr - 1 THEN <<c[1] + 1, c[2]>> ELSE None]
EastOf(nr, nc) == [c \in Cells(nr, nc) |-> IF c[2] # nc - 1 THEN <<c[1], c[2] + 1>> ELSE None]
WestOf(nr, nc) == [c \in Cells(nr, nc) |-> IF c[2] # 0 THEN <<c[1], c[2] - 1>> ELSE None]

\* ----------------------------------------------------------- link tables
\* self.links[cell] = v. (t ranges over the one table tbl, so that a chain of
\* calls evaluates each table once.)
SetEntry(tbl, self, cell, v) ==
  CHOOSE new \in
    {[t EXCEPT ![self] = [x \in (DOMAIN t[self]) \cup {cell} |->
                            IF x = cell THEN v ELSE t[self][x]]] : t \in {tbl}} : TRUE

\* del self.links[cell]  (the statement Cell.unlink has commented out)
DelEntry(tbl, self, cell) ==
  CHOOSE new \in
    {[t EXCEPT ![self] = [x \in (DOMAIN t[self]) \ {cell} |-> t[self][x]]] :
       t \in {tbl}} : TRUE

\* A slip of Cell.link: the inverse call is never made.
link_oneway(tbl, self, cell, bidirectional) ==
  SetEntry(tbl, self, cell, TRUE)

\* Cell.link: the table after self.link(cell, bidirectional); the inner call
\* cell.link(self, bidirectional=False) sets the inverse entry and stops.
link(tbl, self, cell, bidirectional) ==
  LET t1 == SetEntry(tbl, self, cell, TRUE)
  IN  IF bidirectional THEN SetEntry(t1, cell, self, TRUE) ELSE t1

\* A slip of Cell.unlink: the entry is deleted (the statement the code has
\* commented out) instead of being set to False.
unlink_del(tbl, self, cell, bidirectional) ==
  LET t1 == DelEntry(tbl, self, cell)
  IN  IF bidirectional THEN DelEntry(t1, cell, self) ELSE t1

\* Cell.unlink: the table after self.unlink(cell, bidirectional)
unlink(tbl, self, cell, bidirectional) ==
  LET t1 == SetEntry(tbl, self, cell, FALSE)
  IN  IF bidirectional THEN SetEntry(t1, cell, self, FALSE) ELSE t1

\* Cell.is_linked: "True" / "False" for the stored boolean, "KeyError" when
\* cell is no key of self's table.
is_linked(tbl, self, cell) ==
  IF cell \in DOMAIN tbl[self]
    THEN (IF tbl[self][cell] THEN "True" ELSE "False")
    ELSE "KeyError"

\* The state self holds for cell: never set, linked or explicitly unlinked.
LinkState(tbl, self, cell) ==
  IF cell \notin DOMAIN tbl[self] THEN "unset"
  ELSE IF tbl[self][cell] THEN "linked" ELSE "unlinked"

\* A slip of connect_cells' loop body: the last branch calls unlink.
ConnectOneWestUnlinked(tbl, c, nr, nc) ==
  LET t1 == IF c[1] # nr - 1 THEN link(tbl, c, <<c[1] + 1, c[2]>>, TRUE) ELSE tbl
      t2 == IF c[1] # 0 THEN link(t1, c, <<c[1] - 1, c[2]>>, TRUE) ELSE t1
      t3 == IF c[2] # nc - 1 THEN link(t2, c, <<c[1], c[2] + 1>>, TRUE) ELSE t2
      t4 == IF c[2] # 0 THEN unlink(t3, c, <<c[1], c[2] - 1>>, TRUE) ELSE t3
  IN  t4

\* The body of connect_cells' inner loop for cell (i, j): up to four link calls.
\* (In the loops below, t ranges over the one table the body returns, so that
\* each table is evaluated once.)
ConnectOne(tbl, c, nr, nc) ==
  LET t1 == IF c[1] # nr - 1 THEN link(tbl, c, <<c[1] + 1, c[2]>>, TRUE) ELSE tbl
      t2 == IF c[1] # 0 THEN link(t1, c, <<c[1] - 1, c[2]>>, TRUE) ELSE t1
      t3 == IF c[2] # nc - 1 THEN link(t2, c, <<c[1], c[2] + 1>>, TRUE) ELSE t2
      t4 == IF c[2] # 0 THEN link(t3, c, <<c[1], c[2] - 1>>, TRUE) ELSE t3
  IN  t4

RECURSIVE ConnectFrom(_, _, _, _)
ConnectFrom(tbl, k, nr, nc) ==
  IF k >= size(nr, nc) THEN tbl
  ELSE CHOOSE new \in
         {ConnectFrom(t, k + 1, nr, nc) :
            t \in {ConnectOne(tbl, RowMajor(k, nc), nr, nc)}} : TRUE

\* Grid.__init__: create_cells gives every cell an empty table, connect_cells
\* links every adjacent pair.
connect_cells(nr, nc) ==
  ConnectFrom([c \in Cells(nr, nc) |-> << >>], 0, nr, nc)

\* A slip of unlink_all's loop body: the last branch still calls link, as in
\* connect_cells, from which the loop is copied.
UnlinkOneWestLinked(tbl, c, nr, nc) ==
  LET t1 == IF c[1] # nr - 1 THEN unlink(tbl, c, <<c[1] + 1, c[2]>>, TRUE) ELSE tbl
      t2 == IF c[1] # 0 THEN unlink(t1, c, <<c[1] - 1, c[2]>>, TRUE) ELSE t1
      t3 == IF c[2] # nc - 1 THEN unlink(t2, c, <<c[1], c[2] + 1>>, TRUE) ELSE t2
      t4 == IF c[2] # 0 THEN link(t3, c, <<c[1], c[2] - 1>>, TRUE) ELSE t3
  IN  t4

\* The body of unlink_all's inner loop for cell (i, j).
UnlinkOne(tbl, c, nr, nc) ==
  LET t1 == IF c[1] # nr - 1 THEN unlink(tbl, c, <<c[1] + 1, c[2]>>, TRUE) ELSE tbl
      t2 == IF c[1] # 0 THEN unlink(t1, c, <<c[1] - 1, c[2]>>, TRUE) ELSE t1
      t3 == IF c[2] # nc - 1 THEN unlink(t2, c, <<c[1], c[2] + 1>>, TRUE) ELSE t2
      t4 == IF c[2] # 0 THEN unlink(t3, c, <<c[1], c[2] - 1>>, TRUE) ELSE t3
  IN  t4

RECURSIVE UnlinkFrom(_, _, _, _)
UnlinkFrom(tbl, k, nr, nc) ==
  IF k >= size(nr, nc) THEN tbl
  ELSE CHOOSE new \in
         {UnlinkFrom(t, k + 1, nr, nc) :
            t \in {UnlinkOne(tbl, RowMajor(k, nc), nr, nc)}} : TRUE

\* Grid.unlink_all
unlink_all(tbl, nr, nc) == UnlinkFrom(tbl, 0, nr, nc)

\* ------------------------------------------------------------------ state
VARIABLES
  num_rows, num_columns,      \* Grid.num_rows, Grid.num_columns
  north, south, east, west,   \* Cell.north .. Cell.west, per cell
  links,                      \* Cell.links, per cell
  pc,                         \* the call in progress / the last call finished
  ncalls,                     \* number of free link / unlink calls made
  oneway,                     \* some call so far passed bidirectional=False
  i, j,                       \* loop indices of the running algorithm
  run, odds,                  \* sidewinder: the run, odds in tenths
  linked_cells, next_cell, iteration_count,              \* aldous_broder
  unvisited, path, random_choices, loops_removed,        \* wilson
  visited,                    \* wilson, recursive_backtracker
  stack,                      \* recursive_backtracker
  args, result                \* the last query call: its arguments, its outcome

grid_vars == <<num_rows, num_columns, north, south, east, west>>

call_vars == <<ncalls, oneway, args, result>>

sw_vars == <<run, odds>>

ab_vars == <<linked_cells, next_cell, iteration_count>>

w_vars == <<unvisited, path, random_choices, loops_removed>>

\* The locals of the five algorithms.
locals == <<i, j, sw_vars, ab_vars, w_vars, visited, stack>>

vars == <<grid_vars, links, pc, call_vars, locals>>

GridCells == Cells(num_rows, num_columns)

\* Two cells are geographic neighbours.
Adjacent(a, b) ==
  \/ (a[1] = b[1] /\ (a[2] = b[2] + 1 \/ b[2] = a[2] + 1))
  \/ (a[2] = b[2] /\ (a[1] = b[1] + 1 \/ b[1] = a[1] + 1))

\* The state after Grid(nr, nc).
InitGrid(nr, nc) ==
  /\ num_rows = nr
  /\ num_columns = nc
  /\ north = NorthOf(nr, nc)
  /\ south = SouthOf(nr, nc)
  /\ east = EastOf(nr, nc)
  /\ west = WestOf(nr, nc)
  /\ links = connect_cells(nr, nc)
  /\ pc = "idle"
  /\ ncalls = 0
  /\ oneway = FALSE
  /\ args = << >>
  /\ result = None
  /\ i = 0
  /\ j = 0
  /\ run = << >>
  /\ odds = 0
  /\ linked_cells = {}
  /\ next_cell = None
  /\ iteration_count = 0
  /\ unvisited = << >>
  /\ path = << >>
  /\ random_choices = 0
  /\ loops_removed = 0
  /\ visited = << >>
  /\ stack = << >>

\* ------------------------------------------------- free link/unlink calls
\* a.link(b, bidirectional) on any two cells of the grid
Link(a, b, bidirectional) ==
  /\ ncalls < MaxCalls
  /\ links' = link(links, a, b, bidirectional)
  /\ pc' = "link"
  /\ ncalls' = ncalls + 1
  /\ oneway' = (oneway \/ ~bidirectional)
  /\ UNCHANGED <<grid_vars, locals, args, result>>

\* a.unlink(b, bidirectional) on any two cells of the grid
Unlink(a, b, bidirectional) ==
  /\ ncalls < MaxCalls
  /\ links' = unlink(links, a, b, bidirectional)
  /\ pc' = "unlink"
  /\ ncalls' = ncalls + 1
  /\ oneway' = (oneway \/ ~bidirectional)
  /\ UNCHANGED <<grid_vars, locals, args, result>>

InitLink ==
  \E nr \in 1 .. LinkMaxCells : \E nc \in 1 .. LinkMaxCells :
    /\ nr * nc <= LinkMaxCells
    /\ InitGrid(nr, nc)

NextLink ==
  \/ \E a \in GridCells : \E b \in GridCells : \E bidirectional \in BOOLEAN :
       Link(a, b, bidirectional)
  \/ \E a \in GridCells : \E b \in GridCells : \E bidirectional \in BOOLEAN :
       Unlink(a, b, bidirectional)

SpecLink == InitLink /\ [][NextLink]_vars

\* ------------------------------------ calls on adjacent cells, unlink_all
LinkAdj(a, b, bidirectional) ==
  /\ Adjacent(a, b)
  /\ links' = link(links, a, b, bidirectional)
  /\ pc' = "link"
  /\ oneway' = (oneway \/ ~bidirectional)
  /\ UNCHANGED <<grid_vars, ncalls, locals, args, result>>

UnlinkAdj(a, b, bidirectional) ==
  /\ Adjacent(a, b)
  /\ links' = unlink(links, a, b, bidirectional)
  /\ pc' = "unlink"
  /\ oneway' = (oneway \/ ~bidirectional)
  /\ UNCHANGED <<grid_vars, ncalls, locals, args, result>>

\* grid.unlink_all()
UnlinkAll ==
  /\ links' = unlink_all(links, num_rows, num_columns)
  /\ pc' = "unlink_all"
  /\ UNCHANGED <<grid_vars, call_vars, locals>>

InitAdj ==
  \E nr \in 1 .. AdjMaxCells : \E nc \in 1 .. AdjMaxCells :
    /\ nr * nc <= AdjMaxCells
    /\ InitGrid(nr, nc)

NextAdj ==
  \/ \E a \in GridCells : \E b \in GridCells : \E bidirectional \in BOOLEAN :
       LinkAdj(a, b, bidirectional)
  \/ \E a \in GridCells : \E b \in GridCells : \E bidirectional \in BOOLEAN :
       UnlinkAdj(a, b, bidirectional)
  \/ UnlinkAll

SpecAdj == InitAdj /\ [][NextAdj]_vars

\* ------------------------------------------------------------ C1, C10
\* A's state for B equals B's state for A, for all cells A and B.
Symmetric(tbl) ==
  \A a \in GridCells : \A b \in GridCells :
    LinkState(tbl, a, b) = LinkState(tbl, b, a)

\* C1 as stated: after any sequence of link / unlink calls, with any value of
\* the bidirectional argument, the link state A holds for B equals the link
\* state B holds for A.
C1_SymmetricAfterAnyCalls == Symmetric(links)

\* C1 amended: after any sequence of link / unlink calls that all pass
\* bidirectional=True (the default), the link state A holds for B equals the
\* link state B holds for A: both linked, both unlinked or both never set.
C1_SymmetricAfterBidirectionalCalls == (~oneway) => Symmetric(links)

\* Two bidirectional calls were made: two cells that are not neighbours are
\* linked, and two others are explicitly unlinked.
C1_Witness ==
  /\ ~oneway
  /\ ncalls = 2
  /\ \E a \in GridCells : \E b \in GridCells :
       a # b /\ ~Adjacent(a, b) /\ LinkState(links, a, b) = "linked"
  /\ \E a \in GridCells : \E b \in GridCells :
       a # b /\ LinkState(links, a, b) = "unlinked"

\* C10: after unlink_all, on any grid state that construction and link /
\* unlink calls on adjacent cells produce, every adjacent pair is explicitly
\* unlinked in both directions (is_linked answers False, not an error), and a
\* second unlink_all leaves the tables as they are.
C10_UnlinkAllIdempotent ==
  (pc = "unlink_all") =>
     /\ \A a \in GridCells : \A b \in GridCells :
          Adjacent(a, b) => is_linked(links, a, b) = "False"
     /\ unlink_all(links, num_rows, num_columns) = links

\* unlink_all has run on a grid of at least two rows and two columns.
C10_Witness ==
  /\ pc = "unlink_all"
  /\ num_rows >= 2
  /\ num_columns >= 2

\* --------------------------------------------------------------- C11
\* The step leaves the table of every cell other than a and b as it is (as
\* every call a.link(b) and a.unlink(b) does).
OnlyTablesOf(a, b) == \A c \in GridCells \ {a, b} : links'[c] = links[c]

\* C11: is_linked(other) fails with a lookup error exactly for a cell that no
\* link or unlink call has recorded in the table (on a fresh grid: every cell
\* that is not a neighbour), and answers False once the pair is unlinked:
\* unlink sets the entry (for the other cell too when bidirectional), no call
\* removes an entry, and a call changes no entry of another pair.
C11_UnsetLinkedUnlinkedDistinct ==
  /\ \A a \in GridCells : \A b \in GridCells :
       (is_linked(links, a, b) = "KeyError") <=> ~Adjacent(a, b)
  /\ [][\A a \in GridCells : \A b \in GridCells :
         /\ (is_linked(links, a, b) # "KeyError") =>
               (is_linked(links', a, b) # "KeyError")
         /\ (pc' = "unlink" /\ OnlyTablesOf(a, b)) =>
              \A bd \in BOOLEAN :
                Unlink(a, b, bd) =>
                  /\ is_linked(links', a, b) = "False"
                  /\ bd => is_linked(links', b, a) = "False"
                  /\ \A c \in GridCells : \A d \in GridCells :
                       ({c, d} # {a, b} \/ (~bd /\ <<c, d>> # <<a, b>>)) =>
                         is_linked(links', c, d) = is_linked(links, c, d)
         /\ (pc' = "link" /\ OnlyTablesOf(a, b)) =>
              \A bd \in BOOLEAN :
                Link(a, b, bd) => is_linked(links', a, b) = "True"]_vars

\* After two calls the three answers occur side by side: a pair of cells that
\* are not neighbours was unlinked and answers False, another non-neighbour
\* is still unrecorded, and a neighbour is still linked.
C11_Witness ==
  /\ ncalls = 2
  /\ pc = "unlink"
  /\ \E a \in GridCells : \E b \in GridCells :
       a # b /\ ~Adjacent(a, b) /\ is_linked(links, a, b) = "False"
  /\ \E a \in GridCells : \E b \in GridCells :
       a # b /\ is_linked(links, a, b) = "KeyError"
  /\ \E a \in GridCells : \E b \in GridCells : is_linked(links, a, b) = "True"

\* ------------------------------------------------------------ passages
\* Grid.cell_at: self.grid[row][column]. A Python list index from -len to
\* len-1 is in range (negative indices count from the end); any other raises
\* IndexError.
IndexError == <<-2, -2>>

cell_at(row, column) ==
  IF /\ row \in (0 - num_rows) .. (num_rows - 1)
     /\ column \in (0 - num_columns) .. (num_columns - 1)
    THEN <<row % num_rows, column % num_columns>>
    ELSE IndexError

\* There is a passage from a to b: a's table holds True for b.
Linked(tbl, a, b) == b \in DOMAIN tbl[a] /\ tbl[a][b]

\* The cells reachable from the cells of `seen` through passages.
RECURSIVE ReachFrom(_, _)
ReachFrom(tbl, seen) ==
  CHOOSE all \in
    {IF next = sn THEN sn ELSE ReachFrom(tbl, next) :
       <<sn, next>> \in
         {<<sn, sn \cup {b \in GridCells : \E a \in sn : Linked(tbl, a, b)}>> :
            sn \in {seen}}} : TRUE

\* Every cell is reachable from every other cell through linked passages.
Connected(tbl) ==
  \A root \in GridCells : ReachFrom(tbl, {root}) = GridCells

\* The neighbours of c that c is linked to.
LinkedNeighbours(tbl, c) == {b \in GridCells : Adjacent(c, b) /\ Linked(tbl, c, b)}

\* --------------------------------------------------------- binary_tree
\* Grids of at most BTMaxCells cells.
BTMaxCells == 9

\* A slip of the coin branch: r == 0 drops both the east and the north link.
BTCarveBothUnlinked(tbl, ii, jj, r) ==
  IF ii = 0 /\ jj = num_columns - 1 THEN tbl
  ELSE IF ii = 0 THEN link(tbl, cell_at(ii, jj), cell_at(ii, jj + 1), TRUE)
  ELSE IF jj = num_columns - 1 THEN link(tbl, cell_at(ii, jj), cell_at(ii - 1, jj), TRUE)
  ELSE IF r = 0
    THEN unlink(unlink(tbl, cell_at(ii, jj), cell_at(ii, jj + 1), TRUE),
                cell_at(ii, jj), cell_at(ii - 1, jj), TRUE)
    ELSE unlink(tbl, cell_at(ii, jj), cell_at(ii - 1, jj), TRUE)

\* A slip of the top-row branch: unlink where the code links.
BTCarveTopUnlinks(tbl, ii, jj, r) ==
  IF ii = 0 /\ jj = num_columns - 1 THEN tbl
  ELSE IF ii = 0 THEN unlink(tbl, cell_at(ii, jj), cell_at(ii, jj + 1), TRUE)
  ELSE IF jj = num_columns - 1 THEN link(tbl, cell_at(ii, jj), cell_at(ii - 1, jj), TRUE)
  ELSE IF r = 0 THEN unlink(tbl, cell_at(ii, jj), cell_at(ii, jj + 1), TRUE)
  ELSE unlink(tbl, cell_at(ii, jj), cell_at(ii - 1, jj), TRUE)

\* The body of binary_tree's inner loop for cell (ii, jj) with coin r: the
\* top-right cell does nothing, the top row links east, the right column
\* links north, any other cell unlinks east (r = 0) or north (r = 1).
BTCarve(tbl, ii, jj, r) ==
  IF ii = 0 /\ jj = num_columns - 1 THEN tbl
  ELSE IF ii = 0 THEN link(tbl, cell_at(ii, jj), cell_at(ii, jj + 1), TRUE)
  ELSE IF jj = num_columns - 1 THEN link(tbl, cell_at(ii, jj), cell_at(ii - 1, jj), TRUE)
  ELSE IF r = 0 THEN unlink(tbl, cell_at(ii, jj), cell_at(ii, jj + 1), TRUE)
  ELSE unlink(tbl, cell_at(ii, jj), cell_at(ii - 1, jj), TRUE)

\* binary_tree(grid) is called: i = num_rows - 1, j = 0.
BTStart ==
  /\ pc = "idle"
  /\ pc' = "binary_tree"
  /\ i' = num_rows - 1
  /\ j' = 0
  /\ UNCHANGED <<grid_vars, links, call_vars, sw_vars, ab_vars, w_vars, visited, stack>>

\* One pass of the inner loop, on cell (i, j), with r = random.randint(0, 1).
\* After the last column the outer loop goes one row north and resets j; after
\* row 0 both loops end.
BTCell(r) ==
  /\ pc = "binary_tree"
  /\ i >= 0
  /\ j <= num_columns - 1
  /\ links' = BTCarve(links, i, j, r)
  /\ IF j + 1 <= num_columns - 1
       THEN /\ j' = j + 1
            /\ UNCHANGED <<i, pc>>
       ELSE IF i - 1 >= 0
         THEN /\ i' = i - 1
              /\ j' = 0
              /\ UNCHANGED pc
         ELSE /\ i' = i - 1
              /\ j' = j + 1
              /\ pc' = "binary_tree_done"
  /\ UNCHANGED <<grid_vars, call_vars, sw_vars, ab_vars, w_vars, visited, stack>>

InitBT ==
  \E nr \in 1 .. BTMaxCells : \E nc \in 1 .. BTMaxCells :
    /\ nr * nc <= BTMaxCells
    /\ InitGrid(nr, nc)

NextBT ==
  \/ BTStart
  \/ \E r \in 0 .. 1 : BTCell(r)

SpecBT == InitBT /\ [][NextBT]_vars

\* C6: when binary_tree has run on a freshly constructed grid, every cell is
\* reachable from every other cell through linked passages.
C6_BinaryTreeConnected == (pc = "binary_tree_done") => Connected(links)

\* binary_tree has finished on a grid of at least 2 x 2 cells and has removed
\* a passage.
C6_Witness ==
  /\ pc = "binary_tree_done"
  /\ num_rows >= 2
  /\ num_columns >= 2
  /\ \E a \in GridCells : \E b \in GridCells : Adjacent(a, b) /\ ~Linked(links, a, b)

TopRight == <<0, num_columns - 1>>

\* C9 as stated: after binary_tree on a fresh grid of at least 2 x 2 cells the
\* top-right cell has zero links, every other top-row cell is linked only to
\* its east neighbour and every other right-column cell only to its north
\* neighbour.
C9_TopRightHasNoLinks ==
  (pc = "binary_tree_done" /\ num_rows >= 2 /\ num_columns >= 2) =>
     /\ LinkedNeighbours(links, TopRight) = {}
     /\ \A c \in GridCells : (c[1] = 0 /\ c # TopRight) =>
          LinkedNeighbours(links, c) = {east[c]}
     /\ \A c \in GridCells : (c[2] = num_columns - 1 /\ c # TopRight) =>
          LinkedNeighbours(links, c) = {north[c]}

\* C9 amended: after binary_tree on a fresh grid of at least 2 x 2 cells the
\* top-right cell is linked to exactly its west and south neighbours (the
\* links its neighbours keep); every other top-row cell is linked to its east
\* neighbour and to its west neighbour if it has one; every other
\* right-column cell is linked to its north neighbour and to its south
\* neighbour if it has one.
C9_BoundaryLinks ==
  (pc = "binary_tree_done" /\ num_rows >= 2 /\ num_columns >= 2) =>
     /\ LinkedNeighbours(links, TopRight) = {west[TopRight], south[TopRight]}
     /\ \A c \in GridCells : (c[1] = 0 /\ c # TopRight) =>
          ({east[c], west[c]} \ {None}) \subseteq LinkedNeighbours(links, c)
     /\ \A c \in GridCells : (c[2] = num_columns - 1 /\ c # TopRight) =>
          ({north[c], south[c]} \ {None}) \subseteq LinkedNeighbours(links, c)

\* binary_tree has finished on a grid of at least 2 x 2 cells in which a
\* top-row cell is also linked south and a right-column cell also west.
C9_Witness ==
  /\ pc = "binary_tree_done"
  /\ num_rows >= 2
  /\ num_columns >= 2
  /\ \E c \in GridCells : c[1] = 0 /\ c # TopRight /\ Linked(links, c, south[c])
  /\ \E c \in GridCells :
       c[2] = num_columns - 1 /\ c # TopRight /\ Linked(links, c, west[c])

\* ----------------------------------------------------------- sidewinder
\* Grids of at most SWMaxCells cells.
SWMaxCells == 9

\* random.randrange(0, 10, 1) / 10 draws r / 10 for r in 0 .. 9; odds is held
\* in tenths, so `r / 10 <= odds` is `r <= odds`.
RandRange == 10

\* A slip of the loop over the run: unlink east where the code links east.
SWRunMemberUnlinksEast(tbl, c, chosen, lastcol) ==
  LET t1 == IF ~lastcol THEN unlink(tbl, c, east[c], TRUE) ELSE tbl
  IN  IF ~chosen THEN unlink(t1, c, north[c], TRUE)
      ELSE link(t1, c, north[c], TRUE)

\* The body of `for a in range(len(run))` for the member c = run[a]:
\* chosen is a == r1, lastcol is j == grid.num_columns - 1.
SWRunMember(tbl, c, chosen, lastcol) ==
  LET t1 == IF ~lastcol THEN link(tbl, c, east[c], TRUE) ELSE tbl
  IN  IF ~chosen THEN unlink(t1, c, north[c], TRUE)
      ELSE link(t1, c, north[c], TRUE)

\* `for a in range(len(run))` from index a (0-based) on.
RECURSIVE SWRunLoop(_, _, _, _, _)
SWRunLoop(tbl, rn, a, r1, lastcol) ==
  IF a >= Len(rn) THEN tbl
  ELSE SWRunLoop(SWRunMember(tbl, rn[a + 1], a = r1, lastcol), rn, a + 1, r1, lastcol)

\* A slip of closing a run: the last member is not unlinked from its east
\* neighbour.
SWCloseKeepsEast(tbl, rn, r1, lastcol) ==
  LET t1 == SWRunLoop(tbl, rn, 0, r1, lastcol)
  IN  link(t1, rn[r1 + 1], north[rn[r1 + 1]], TRUE)

\* Closing the run rn with the member r1 chosen: the loop over the run, the
\* unlink of the last member from its east neighbour unless it is in the last
\* column, and the link of the chosen member to the north.
SWClose(tbl, rn, r1, lastcol) ==
  LET t1 == SWRunLoop(tbl, rn, 0, r1, lastcol)
      last == rn[Len(rn)]
      t2 == IF last[2] # num_columns - 1 THEN unlink(t1, last, east[last], TRUE) ELSE t1
  IN  link(t2, rn[r1 + 1], north[rn[r1 + 1]], TRUE)

\* sidewinder(grid, odds) is called, 0 <= odds < 1: i = num_rows - 1. On a
\* grid of one row the outer loop is not entered.
SWStart(o) ==
  /\ pc = "idle"
  /\ odds' = o
  /\ i' = num_rows - 1
  /\ IF num_rows - 1 >= 1
       THEN pc' = "sidewinder"
       ELSE pc' = "sidewinder_done"
  /\ UNCHANGED <<grid_vars, links, call_vars, j, run, ab_vars, w_vars, visited, stack>>

\* One pass of the inner loop, on cell (i, j): r is the draw of
\* random.randrange(0, 10, 1), r1 the draw of random.randrange(0, len(run))
\* made when the run closes.
SWCell(r, r1) ==
  /\ pc = "sidewinder"
  /\ i >= 1
  /\ j <= num_columns - 1
  /\ LET rn == Append(run, cell_at(i, j))
         go_on == (r <= odds /\ j # num_columns - 1)
     IN  /\ r1 \in 0 .. Len(rn) - 1
         /\ go_on => r1 = 0
         /\ links' = IF go_on THEN links
                     ELSE SWClose(links, rn, r1, j = num_columns - 1)
         /\ IF j + 1 <= num_columns - 1
              THEN /\ j' = j + 1
                   /\ run' = IF go_on THEN rn ELSE << >>
                   /\ UNCHANGED <<i, pc>>
              ELSE /\ i' = i - 1
                   /\ run' = << >>
                   /\ IF i - 1 >= 1
                        THEN j' = 0 /\ UNCHANGED pc
                        ELSE j' = j + 1 /\ pc' = "sidewinder_done"
  /\ UNCHANGED <<grid_vars, call_vars, odds, ab_vars, w_vars, visited, stack>>

InitSW ==
  \E nr \in 1 .. SWMaxCells : \E nc \in 1 .. SWMaxCells :
    /\ nr * nc <= SWMaxCells
    /\ InitGrid(nr, nc)

NextSW ==
  \/ \E o \in 0 .. RandRange - 1 : SWStart(o)
  \/ \E r \in 0 .. RandRange - 1 : \E r1 \in 0 .. num_columns - 1 : SWCell(r, r1)

SpecSW == InitSW /\ [][NextSW]_vars

\* C5: when sidewinder (any odds with 0 <= odds < 1) has run on a freshly
\* constructed grid, every cell is reachable from every other cell through
\* linked passages.
C5_SidewinderConnected == (pc = "sidewinder_done") => Connected(links)

\* sidewinder has finished on a grid of at least 2 x 2 cells and has closed a
\* run before the last column.
C5_Witness ==
  /\ pc = "sidewinder_done"
  /\ num_rows >= 2
  /\ num_columns >= 2
  /\ \E c \in GridCells : c[1] >= 1 /\ east[c] # None /\ ~Linked(links, c, east[c])

\* -------------------------------------------------------- aldous_broder
\* Grids of at most ABMaxCells cells.
ABMaxCells == 9

\* The counters iteration_count, random_choices and loops_removed are only
\* printed; they count up to MaxCount and stay there.
MaxCount == 2

Sat(n) == IF n < MaxCount THEN n + 1 ELSE n

\* The neighbour of cell in direction r of random.randint(1, 4): 1 north,
\* 2 south, 3 east, 4 west; None when there is none.
Neighbour(cell, r) ==
  IF r = 1 THEN north[cell]
  ELSE IF r = 2 THEN south[cell]
  ELSE IF r = 3 THEN east[cell]
  ELSE west[cell]

\* A slip of the visited test: it asks about the current cell, not the
\* neighbour.
ABMoveTestsCurrent(tbl, lc, cell, nb) ==
  IF cell \notin lc THEN link(tbl, cell, nb, TRUE) ELSE tbl

\* `if linked_cells.get(cell.<dir>, 1) == 1: cell.link(cell.<dir>)`: the
\* neighbour nb is linked when it is no key of linked_cells.
ABMove(tbl, lc, cell, nb) ==
  IF nb \notin lc THEN link(tbl, cell, nb, TRUE) ELSE tbl

\* aldous_broder(grid) is called: unlink_all, then a random start cell
\* (r1, r2).
ABStart(r1, r2) ==
  /\ pc = "idle"
  /\ links' = unlink_all(links, num_rows, num_columns)
  /\ linked_cells' = {}
  /\ iteration_count' = 0
  /\ next_cell' = cell_at(r1, r2)
  /\ pc' = "ab_loop"
  /\ UNCHANGED <<grid_vars, call_vars, i, j, sw_vars, w_vars, visited, stack>>

\* The top of the outer loop: count the iteration, leave when every cell is a
\* key of linked_cells, else record next_cell and go on to draw a direction.
ABLoop ==
  /\ pc = "ab_loop"
  /\ Cardinality(linked_cells) <= size(num_rows, num_columns)
  /\ iteration_count' = Sat(iteration_count)
  /\ IF Cardinality(linked_cells) = size(num_rows, num_columns)
       THEN /\ pc' = "aldous_broder_done"
            /\ UNCHANGED linked_cells
       ELSE /\ linked_cells' = linked_cells \cup {next_cell}
            /\ pc' = "ab_draw"
  /\ UNCHANGED <<grid_vars, links, call_vars, i, j, sw_vars, next_cell, w_vars,
                 visited, stack>>

\* One pass of `while(again==True)` with r = random.randint(1, 4): a
\* direction with a neighbour moves there (linking it if it is not yet in
\* linked_cells) and ends the inner loop; a direction without one draws again.
ABDraw(r) ==
  /\ pc = "ab_draw"
  /\ LET cell == next_cell
         nb == Neighbour(cell, r)
     IN  IF nb # None
           THEN /\ links' = ABMove(links, linked_cells, cell, nb)
                /\ next_cell' = nb
                /\ pc' = "ab_loop"
           ELSE UNCHANGED <<links, next_cell, pc>>
  /\ UNCHANGED <<grid_vars, call_vars, i, j, sw_vars, linked_cells,
                 iteration_count, w_vars, visited, stack>>

InitAB ==
  \E nr \in 1 .. ABMaxCells : \E nc \in 1 .. ABMaxCells :
    /\ nr * nc <= ABMaxCells
    /\ InitGrid(nr, nc)

NextAB ==
  \/ \E r1 \in 0 .. num_rows - 1 : \E r2 \in 0 .. num_columns - 1 : ABStart(r1, r2)
  \/ ABLoop
  \/ \E r \in 1 .. 4 : ABDraw(r)

SpecAB == InitAB /\ [][NextAB]_vars

\* C4: when aldous_broder returns, every cell has been visited (is a key of
\* linked_cells) and every cell is reachable from every other cell through
\* linked passages.
C4_AldousBroderConnected ==
  (pc = "aldous_broder_done") =>
     /\ linked_cells = GridCells
     /\ Connected(links)

\* aldous_broder has returned on a grid of four or more cells.
C4_Witness ==
  /\ pc = "aldous_broder_done"
  /\ size(num_rows, num_columns) >= 4

\* C7: aldous_broder terminates: as long as it has not returned it can take a
\* step that changes its state, and on a 1 x 1 grid it returns without ever
\* drawing a direction for a random-walk step.
C7_AldousBroderTerminates ==
  /\ (pc \in {"ab_loop", "ab_draw"}) => ENABLED <<NextAB>>_vars
  /\ (num_rows = 1 /\ num_columns = 1) => pc # "ab_draw"

\* --------------------------------------------------------------- wilson
\* Grids of at most WMaxCells cells.
WMaxCells == 5

Range(seq) == {seq[k] : k \in 1 .. Len(seq)}

\* The 1-based position of the first element of seq equal to x (x occurs).
FirstIndex(seq, x) ==
  CHOOSE t \in 1 .. Len(seq) : seq[t] = x /\ \A u \in 1 .. t - 1 : seq[u] # x

\* list.remove(x): seq without its first element equal to x (x occurs).
Remove(seq, x) ==
  LET k == FirstIndex(seq, x)
  IN  SubSeq(seq, 1, k - 1) \o SubSeq(seq, k + 1, Len(seq))

\* The cells in the order of `for i in range(num_rows): for j in
\* range(num_columns): unvisited.append(grid.cell_at(i, j))`.
AllCellsList == [k \in 1 .. size(num_rows, num_columns) |-> RowMajor(k - 1, num_columns)]

\* A slip of the loop erasure: nothing is deleted, the walk goes on from the
\* cell just appended.
EraseLoopKeepsLoop(pth, i2) == [path |-> pth, i |-> i2]

\* The loop erasure after the step to pth[i2] (0-based i2): t is the first
\* position whose cell equals pth[i2]; the i2 - t elements after it are
\* deleted (`del path[t+1]`, i2 - t times) and i becomes t.
EraseLoop(pth, i2) ==
  LET t == FirstIndex(pth, pth[i2 + 1]) - 1
  IN  [path |-> SubSeq(pth, 1, t + 1) \o SubSeq(pth, i2 + 2, Len(pth)),
       i |-> t]

\* A slip of the carving loop: the cell is linked to itself, not to the next
\* cell of the path.
WCarveStepSelfLink(st, pth, t) ==
  CHOOSE new \in
    {IF pth[t + 1] \notin Range(s.unvisited)
       THEN [s EXCEPT !.visited = Append(s.visited, pth[t + 1]), !.err = TRUE]
       ELSE [links |-> link(s.links, pth[t + 1], pth[t + 1], TRUE),
             visited |-> Append(s.visited, pth[t + 1]),
             unvisited |-> Remove(s.unvisited, pth[t + 1]),
             err |-> FALSE] : s \in {st}} : TRUE

\* A slip of the carving loop: the cell is not appended to visited.
WCarveStepNoVisit(st, pth, t) ==
  CHOOSE new \in
    {IF pth[t + 1] \notin Range(s.unvisited)
       THEN [s EXCEPT !.err = TRUE]
       ELSE [links |-> link(s.links, pth[t + 1], pth[t + 2], TRUE),
             visited |-> s.visited,
             unvisited |-> Remove(s.unvisited, pth[t + 1]),
             err |-> FALSE] : s \in {st}} : TRUE

\* The body of `for t in range(0, len(path)-1)` for the 0-based t:
\* visited.append(path[t]); unvisited.remove(path[t]), which raises ValueError
\* (err) when path[t] is not in unvisited; path[t].link(path[t+1]).
\* (s ranges over the one state st.)
WCarveStep(st, pth, t) ==
  CHOOSE new \in
    {IF pth[t + 1] \notin Range(s.unvisited)
       THEN [s EXCEPT !.visited = Append(s.visited, pth[t + 1]), !.err = TRUE]
       ELSE [links |-> link(s.links, pth[t + 1], pth[t + 2], TRUE),
             visited |-> Append(s.visited, pth[t + 1]),
             unvisited |-> Remove(s.unvisited, pth[t + 1]),
             err |-> FALSE] : s \in {st}} : TRUE

RECURSIVE WCarve(_, _, _)
WCarve(st, pth, t) ==
  IF t >= Len(pth) - 1 \/ st.err THEN st
  ELSE WCarve(WCarveStep(st, pth, t), pth, t + 1)

\* wilson(grid) is called: unlink_all, unvisited holds every cell, the random
\* cell a moves from unvisited to visited.
WStart(a) ==
  /\ pc = "idle"
  /\ a \in Range(AllCellsList)
  /\ links' = unlink_all(links, num_rows, num_columns)
  /\ unvisited' = Remove(AllCellsList, a)
  /\ visited' = <<a>>
  /\ random_choices' = 0
  /\ loops_removed' = 0
  /\ pc' = "wilson_loop"
  /\ UNCHANGED <<grid_vars, call_vars, i, j, sw_vars, ab_vars, path, stack>>

\* The top of the outer loop: leave when len(visited) == size, else begin a
\* walk at start = random.choice(unvisited), which raises IndexError on an
\* empty list.
WLoop(start) ==
  /\ pc = "wilson_loop"
  /\ Len(visited) <= size(num_rows, num_columns)
  /\ IF Len(visited) = size(num_rows, num_columns)
       THEN /\ pc' = "wilson_done"
            /\ UNCHANGED <<path, i>>
       ELSE IF unvisited = << >>
         THEN /\ pc' = "IndexError"
              /\ UNCHANGED <<path, i>>
         ELSE /\ start \in Range(unvisited)
              /\ path' = <<start>>
              /\ i' = 0
              /\ pc' = "wilson_walk"
  /\ UNCHANGED <<grid_vars, links, call_vars, j, sw_vars, ab_vars, unvisited,
                 random_choices, loops_removed, visited, stack>>

\* One pass of `while(redo==True)` with r = random.randint(1, 4), from the
\* walk's last cell path[i] (i as at the top of `while q==False`). A direction
\* without a neighbour only counts the draw. A direction with one appends the
\* neighbour, erases the loop it closes, and, when the walk has reached a
\* visited cell, carves the path.
WDraw(r) ==
  /\ pc = "wilson_walk"
  /\ random_choices' = Sat(random_choices)
  /\ LET temp == path[i + 1]
         nb == Neighbour(temp, r)
     IN  IF nb = None
           THEN UNCHANGED <<path, i, loops_removed, links, visited, unvisited, pc>>
           ELSE LET e == EraseLoop(Append(path, nb), i + 1)
                    q == e.path[e.i + 1] \in Range(visited)
                    st == WCarve([links |-> links, visited |-> visited,
                                  unvisited |-> unvisited, err |-> FALSE],
                                 e.path, 0)
                IN  /\ path' = e.path
                    /\ i' = e.i
                    /\ loops_removed' = Sat(loops_removed)
                    /\ IF q
                         THEN /\ links' = st.links
                              /\ visited' = st.visited
                              /\ unvisited' = st.unvisited
                              /\ pc' = IF st.err THEN "ValueError" ELSE "wilson_loop"
                         ELSE UNCHANGED <<links, visited, unvisited, pc>>
  /\ UNCHANGED <<grid_vars, call_vars, j, sw_vars, ab_vars, stack>>

InitW ==
  \E nr \in 1 .. WMaxCells : \E nc \in 1 .. WMaxCells :
    /\ nr * nc <= WMaxCells
    /\ InitGrid(nr, nc)

NextW ==
  \/ \E a \in GridCells : WStart(a)
  \/ \E start \in GridCells : WLoop(start)
  \/ \E r \in 1 .. 4 : WDraw(r)

SpecW == InitW /\ [][NextW]_vars

Abs(n) == IF n < 0 THEN 0 - n ELSE n

\* The number of geographic steps between two cells of the grid.
Steps(a, b) == Abs(a[1] - b[1]) + Abs(a[2] - b[2])

\* The number of geographic steps from cell c to the nearest visited cell.
StepsToVisited(c) ==
  CHOOSE k \in 0 .. num_rows + num_columns :
    /\ \E v \in Range(visited) : Steps(c, v) = k
    /\ \A v \in Range(visited) : Steps(c, v) >= k

\* The walk stands k steps from the nearest visited cell and draws a
\* direction that brings it one step nearer.
WDrawNearer(k) ==
  /\ pc = "wilson_walk"
  /\ StepsToVisited(path[i + 1]) = k
  /\ \E r \in 1 .. 4 :
       /\ Neighbour(path[i + 1], r) # None
       /\ StepsToVisited(Neighbour(path[i + 1], r)) = k - 1
       /\ WDraw(r)

\* wilson keeps running, and random.randint is fair: a draw that is possible
\* again and again is made. Of that fairness only this much is used: a walk
\* that is k steps from a visited cell again and again steps nearer again and
\* again.
FairW ==
  /\ WF_vars(NextW)
  /\ \A k \in 1 .. WMaxCells - 1 : SF_vars(WDrawNearer(k))

SpecWFair == SpecW /\ FairW

\* C3: when wilson returns, every cell has been moved from unvisited to
\* visited and every cell is reachable from every other cell through linked
\* passages.
C3_WilsonConnected ==
  (pc = "wilson_done") =>
     /\ unvisited = << >>
     /\ Range(visited) = GridCells
     /\ Connected(links)

\* wilson has returned on a grid of four or more cells.
C3_Witness ==
  /\ pc = "wilson_done"
  /\ size(num_rows, num_columns) >= 4

\* C8: under fair random choices wilson eventually returns with unvisited
\* empty; on a 1 x 1 grid it returns having drawn no direction
\* (random_choices == 0) and made no link.
C8_WilsonTerminates ==
  /\ <>(pc = "wilson_done" /\ unvisited = << >>)
  /\ [](size(num_rows, num_columns) = 1 =>
          /\ pc \in {"idle", "wilson_loop", "wilson_done"}
          /\ random_choices = 0
          /\ \A a \in GridCells : \A b \in GridCells : ~Linked(links, a, b))

\* wilson has returned, with unvisited empty, after walks on a grid of four or
\* more cells.
C8_Witness ==
  /\ pc = "wilson_done"
  /\ unvisited = << >>
  /\ random_choices >= 1
  /\ size(num_rows, num_columns) >= 4

\* ------------------------------------------------ recursive_backtracker
\* Grids of at most RBMaxCells cells.
RBMaxCells == 8

\* The flags N, S, E, W after `for item in visited`: for each item only the
\* first test that holds sets its flag (each is followed by `continue`), so an
\* item that satisfies the north test is not tried on south, east and west,
\* and so on down the chain.
NorthTest(top, item) == north[top] = item \/ north[top] = None
SouthTest(top, item) == south[top] = item \/ south[top] = None
EastTest(top, item) == east[top] = item \/ east[top] = None
WestTest(top, item) == west[top] = item \/ west[top] = None

Flags(top, vis) ==
  [N |-> \E item \in Range(vis) : NorthTest(top, item),
   S |-> \E item \in Range(vis) :
           ~NorthTest(top, item) /\ SouthTest(top, item),
   E |-> \E item \in Range(vis) :
           ~NorthTest(top, item) /\ ~SouthTest(top, item) /\ EastTest(top, item),
   W |-> \E item \in Range(vis) :
           /\ ~NorthTest(top, item) /\ ~SouthTest(top, item)
           /\ ~EastTest(top, item) /\ WestTest(top, item)]

\* The flag of direction r of random.randint(1, 4).
FlagOf(f, r) ==
  IF r = 1 THEN f.N ELSE IF r = 2 THEN f.S ELSE IF r = 3 THEN f.E ELSE f.W

\* list.pop(k) for a 0-based k in range.
PopAt(seq, k) == SubSeq(seq, 1, k) \o SubSeq(seq, k + 2, Len(seq))

\* recursive_backtracker(grid, start_cell) is called; start_cell is any cell
\* of the grid (given, or grid.random_cell()).
RBStart(start_cell) ==
  /\ pc = "idle"
  /\ stack' = <<start_cell>>
  /\ visited' = <<start_cell>>
  /\ i' = 0
  /\ links' = unlink_all(links, num_rows, num_columns)
  /\ pc' = "rb_loop"
  /\ UNCHANGED <<grid_vars, call_vars, j, sw_vars, ab_vars, w_vars>>

\* One pass of the outer loop with r = random.randint(1, 4): leave when
\* len(visited) == size; pop when all four flags are set (stack[i] on the
\* emptied stack raises IndexError); else push, record and link the neighbour
\* in direction r if there is one and its flag is not set.
RBStep(r) ==
  /\ pc = "rb_loop"
  /\ Len(visited) <= size(num_rows, num_columns)
  /\ IF Len(visited) = size(num_rows, num_columns)
       THEN /\ pc' = "rb_done"
            /\ UNCHANGED <<stack, visited, i, links>>
       ELSE IF i < 0 - Len(stack) \/ i >= Len(stack)
         THEN /\ pc' = "IndexError"
              /\ UNCHANGED <<stack, visited, i, links>>
         ELSE LET top == stack[(i % Len(stack)) + 1]
                  f == Flags(top, visited)
                  nb == Neighbour(top, r)
              IN  IF f.N /\ f.S /\ f.E /\ f.W
                    THEN /\ stack' = PopAt(stack, i % Len(stack))
                         /\ i' = Len(stack) - 2
                         /\ pc' = IF Len(stack) = 1 THEN "IndexError" ELSE "rb_loop"
                         /\ UNCHANGED <<visited, links>>
                    ELSE IF nb # None /\ ~FlagOf(f, r)
                      THEN /\ stack' = Append(stack, nb)
                           /\ visited' = Append(visited, nb)
                           /\ links' = link(links, stack[Len(stack)], nb, TRUE)
                           /\ i' = Len(stack)
                           /\ UNCHANGED pc
                      ELSE /\ i' = Len(stack) - 1
                           /\ UNCHANGED <<stack, visited, links, pc>>
  /\ UNCHANGED <<grid_vars, call_vars, j, sw_vars, ab_vars, w_vars>>

InitRB ==
  \E nr \in 1 .. RBMaxCells : \E nc \in 1 .. RBMaxCells :
    /\ nr * nc <= RBMaxCells
    /\ InitGrid(nr, nc)

NextRB ==
  \/ \E start_cell \in GridCells : RBStart(start_cell)
  \/ \E r \in 1 .. 4 : RBStep(r)

SpecRB == InitRB /\ [][NextRB]_vars

\* C2: when recursive_backtracker returns, every cell is reachable from every
\* other cell through linked passages.
C2_BacktrackerConnected == (pc = "rb_done") => Connected(links)

\* -------------------------------------------------------------- queries
\* Query calls (cell_at, link_count, deadends, DijkstraMarkup,
\* ShortestPathMarkup) on grids of at most QMaxCells cells in any state that
\* construction, link / unlink calls on adjacent cells and unlink_all
\* produce. A query changes nothing of the grid; args and result record the
\* call and its outcome.
QMaxCells == 4

QueryCalls ==
  {"cell_at", "link_count", "deadends", "DijkstraMarkup", "ShortestPathMarkup"}

\* `item == True` for a key of Cell.links: the keys are Cell objects, Cell
\* defines no __eq__, so a key never equals True.
KeyEqualsTrue(item) == FALSE

\* Cell.link_count: the number of keys of self.links for which
\* `item == True` holds.
link_count(tbl, self) ==
  Cardinality({item \in DOMAIN tbl[self] : KeyEqualsTrue(item)})

\* Grid.deadends: `for item in self.grid` ranges over the rows (lists of
\* cells) of the grid; `item.link_count` on the first row raises
\* AttributeError, a list has no such attribute. With no row the empty
\* result is returned.
deadends ==
  IF \E row \in 0 .. num_rows - 1 : TRUE
    THEN [raised |-> "AttributeError", value |-> {}]
    ELSE [raised |-> "none", value |-> {}]

\* The values a markup holds: Python integers and strings, equal only when of
\* the same type.
PyInt(n) == [type |-> "int", val |-> n]

PyStr(str) == [type |-> "str", val |-> str]

PyEq(a, b) == a.type = b.type /\ a.val = b.val

\* Markup.__init__: no marks, the default given.
Markup(default) == [marks |-> << >>, default |-> default]

\* Markup.__getitem__: self.marks.get(cell, self.default)
GetItem(markup, cell) ==
  IF cell \in DOMAIN markup.marks THEN markup.marks[cell] ELSE markup.default

\* DijkstraMarkup.__init__(grid, root_cell, default=0):
\* super().__init__(grid, default), then `pass`: nothing is computed, the
\* link tables and root_cell are not read.
DijkstraMarkup(tbl, root_cell) == Markup(PyInt(0))

\* ShortestPathMarkup.__init__(grid, start_cell, goal_cell, path_marker,
\* non_path_marker): super().__init__(grid, start_cell), then `pass`: the goal
\* and the two markers are not used.
ShortestPathMarkup(tbl, start_cell, goal_cell, path_marker, non_path_marker) ==
  DijkstraMarkup(tbl, start_cell)

\* grid.cell_at(row, column)
CellAt(row, column) ==
  /\ pc \notin QueryCalls
  /\ pc' = "cell_at"
  /\ args' = <<row, column>>
  /\ result' = cell_at(row, column)
  /\ UNCHANGED <<grid_vars, links, ncalls, oneway, locals>>

\* grid.cell_at(row, column).link_count() for a cell of the grid
LinkCount(self) ==
  /\ pc \notin QueryCalls
  /\ pc' = "link_count"
  /\ args' = self
  /\ result' = link_count(links, self)
  /\ UNCHANGED <<grid_vars, links, ncalls, oneway, locals>>

\* grid.deadends()
Deadends ==
  /\ pc \notin QueryCalls
  /\ pc' = "deadends"
  /\ args' = << >>
  /\ result' = deadends
  /\ UNCHANGED <<grid_vars, links, ncalls, oneway, locals>>

\* DijkstraMarkup(grid, root_cell) for a cell of the grid
Dijkstra(root_cell) ==
  /\ pc \notin QueryCalls
  /\ pc' = "DijkstraMarkup"
  /\ args' = root_cell
  /\ result' = DijkstraMarkup(links, root_cell)
  /\ UNCHANGED <<grid_vars, links, ncalls, oneway, locals>>

\* ShortestPathMarkup(grid, start_cell, goal_cell) with the default markers
ShortestPath(start_cell, goal_cell) ==
  /\ pc \notin QueryCalls
  /\ pc' = "ShortestPathMarkup"
  /\ args' = <<start_cell, goal_cell>>
  /\ result' = ShortestPathMarkup(links, start_cell, goal_cell, "*", " ")
  /\ UNCHANGED <<grid_vars, links, ncalls, oneway, locals>>

InitQ ==
  \E nr \in 1 .. QMaxCells : \E nc \in 1 .. QMaxCells :
    /\ nr * nc <= QMaxCells
    /\ InitGrid(nr, nc)

\* The arguments tried for cell_at: every index from one below -len to len.
NextQ ==
  \/ \E a \in GridCells : \E b \in GridCells : \E bidirectional \in BOOLEAN :
       pc \notin QueryCalls /\ LinkAdj(a, b, bidirectional)
  \/ \E a \in GridCells : \E b \in GridCells : \E bidirectional \in BOOLEAN :
       pc \notin QueryCalls /\ UnlinkAdj(a, b, bidirectional)
  \/ pc \notin QueryCalls /\ UnlinkAll
  \/ \E row \in (0 - num_rows - 1) .. num_rows :
       \E column \in (0 - num_columns - 1) .. num_columns : CellAt(row, column)
  \/ \E self \in GridCells : LinkCount(self)
  \/ Deadends
  \/ \E root_cell \in GridCells : Dijkstra(root_cell)
  \/ \E start_cell \in GridCells : \E goal_cell \in GridCells :
       ShortestPath(start_cell, goal_cell)

SpecQ == InitQ /\ [][NextQ]_vars

\* C12: cell_at(row, col) is bounds-checked: with row outside 0..num_rows-1
\* or col outside 0..num_columns-1 (negative values included) it ends in an
\* error and returns no cell; in range it returns the cell (row, col).
C12_CellAtBoundsChecked ==
  (pc = "cell_at") =>
     IF args[1] \in 0 .. num_rows - 1 /\ args[2] \in 0 .. num_columns - 1
       THEN result = args
       ELSE result = IndexError

\* C13: link_count() returns the number of entries of the cell's link table
\* whose state is true.
C13_LinkCountCountsTrueEntries ==
  (pc = "link_count") =>
     result = Cardinality({b \in DOMAIN links[args] : links[args][b]})

\* C14: deadends() returns normally, with exactly the cells that have exactly
\* one linked neighbour.
C14_DeadendsHaveOneLink ==
  (pc = "deadends") =>
     /\ result.raised = "none"
     /\ result.value =
          {c \in GridCells : Cardinality(LinkedNeighbours(links, c)) = 1}

\* ----------------------------------- construction, then any one algorithm
\* A grid of at most AllMaxCells cells is constructed; then unlink_all or one
\* of the five algorithms runs on it.
AllMaxCells == 6

InitAll ==
  \E nr \in 1 .. AllMaxCells : \E nc \in 1 .. AllMaxCells :
    /\ nr * nc <= AllMaxCells
    /\ InitGrid(nr, nc)

NextAll ==
  \/ pc = "idle" /\ UnlinkAll
  \/ NextBT
  \/ NextSW
  \/ NextAB
  \/ NextW
  \/ NextRB

SpecAll == InitAll /\ [][NextAll]_vars

\* C15: after Grid(num_rows, num_columns) is constructed, north of cell (r, c)
\* is cell (r-1, c) when r > 0 and absent otherwise, and likewise south, east
\* and west; every geographically adjacent pair is linked in both directions;
\* unlink_all and the five algorithms leave the four relations as they are.
C15_NeighboursFixedAtConstruction ==
  /\ \A c \in GridCells :
       /\ north[c] = IF c[1] > 0 THEN <<c[1] - 1, c[2]>> ELSE None
       /\ south[c] = IF c[1] < num_rows - 1 THEN <<c[1] + 1, c[2]>> ELSE None
       /\ east[c] = IF c[2] < num_columns - 1 THEN <<c[1], c[2] + 1>> ELSE None
       /\ west[c] = IF c[2] > 0 THEN <<c[1], c[2] - 1>> ELSE None
  /\ (pc = "idle") =>
       \A a \in GridCells : \A b \in GridCells :
         Adjacent(a, b) => (Linked(links, a, b) /\ Linked(links, b, a))

\* An algorithm has run to its end on a grid of at least 2 x 2 cells and has
\* left some neighbours without a passage between them.
C15_Witness ==
  /\ pc \in {"binary_tree_done", "sidewinder_done", "aldous_broder_done",
             "wilson_done", "rb_done"}
  /\ num_rows >= 2
  /\ num_columns >= 2
  /\ \E c \in GridCells : south[c] # None /\ ~Linked(links, c, south[c])

\* ------------------------------------------------------------ C16, C17
\* The number of links on a shortest linked path from the cells of `seen`
\* (at distance d from the root) to cell c, for a c that can be reached.
RECURSIVE DistFrom(_, _, _, _)
DistFrom(tbl, seen, c, d) ==
  IF c \in seen THEN d
  ELSE DistFrom(tbl, seen \cup {b \in GridCells : \E a \in seen : Linked(tbl, a, b)},
                c, d + 1)

Distance(tbl, root, c) == DistFrom(tbl, {root}, c, 0)

\* C16: DijkstraMarkup(grid, root) records for every cell reachable from root
\* through linked passages its breadth-first distance from root (0 for root),
\* and leaves every other cell at the markup default.
C16_DijkstraRecordsDistances ==
  (pc = "DijkstraMarkup") =>
     \A c \in GridCells :
       IF c \in ReachFrom(links, {args})
         THEN PyEq(GetItem(result, c), PyInt(Distance(links, args, c)))
         ELSE c \notin DOMAIN result.marks

\* The cells a markup marks with the path marker.
PathCells(markup) == {c \in GridCells : PyEq(GetItem(markup, c), PyStr("*"))}

\* C17: ShortestPathMarkup(grid, A, B), with B reachable from A, marks with
\* path_marker exactly one chain from B back to A in which every step follows
\* a link to a cell one nearer to A, marks every other cell with
\* non_path_marker, and the marked path has as many links as the distance
\* from A to B.
C17_ShortestPathMarksChain ==
  (pc = "ShortestPathMarkup" /\ args[2] \in ReachFrom(links, {args[1]})) =>
     /\ args[1] \in PathCells(result)
     /\ args[2] \in PathCells(result)
     /\ Cardinality(PathCells(result)) = Distance(links, args[1], args[2]) + 1
     /\ \A c \in PathCells(result) \ {args[1]} :
          /\ c \in ReachFrom(links, {args[1]})
          /\ \E b \in PathCells(result) :
               /\ Linked(links, c, b)
               /\ b \in ReachFrom(links, {args[1]})
               /\ Distance(links, args[1], b) + 1 = Distance(links, args[1], c)
     /\ \A c \in GridCells \ PathCells(result) :
          PyEq(GetItem(result, c), PyStr(" "))

\* ----------------------------------------------------- ColorizedMarkup
\* intensity_colorize on grids of at most CMaxCells cells, given a markup
\* with default 0 that holds nothing (as DijkstraMarkup leaves it) or holds
\* for every cell an integer from 0 to MaxValue.
CMaxCells == 4
MaxValue == 2

\* round(n / d) for n >= 0 and d > 0: Python rounds a half to the even
\* neighbour.
Round(n, d) ==
  LET q == n \div d
      r == n % d
  IN  IF 2 * r < d THEN q
      ELSE IF 2 * r > d THEN q + 1
      ELSE IF q % 2 = 0 THEN q ELSE q + 1

\* Markup.max followed by markup[max]: the largest value among the marks.
MaxValueOf(markup) ==
  CHOOSE v \in {GetItem(markup, k).val : k \in DOMAIN markup.marks} :
    \A k \in DOMAIN markup.marks : GetItem(markup, k).val <= v

\* The colour intensity_colorize stores for a cell of value cell_value:
\* intensity = (max_value - cell_value) / max_value,
\* dark = round(255 * intensity), bright = round(127 * intensity) + 128.
Colour(max_value, cell_value, channel) ==
  LET dark == Round(255 * (max_value - cell_value), max_value)
      bright == Round(127 * (max_value - cell_value), max_value) + 128
  IN  IF channel = "R" THEN <<bright, dark, dark>>
      ELSE IF channel = "G" THEN <<dark, bright, dark>>
      ELSE <<dark, dark, bright>>

\* ColorizedMarkup(grid, channel).intensity_colorize(markup): markup.max()
\* raises ValueError when the markup holds no mark; the division raises
\* ZeroDivisionError at the first cell when max_value is 0; else every cell
\* gets its colour. On an error self.marks is still empty.
intensity_colorize(markup, channel) ==
  IF DOMAIN markup.marks = {}
    THEN [raised |-> "ValueError", marks |-> << >>]
  ELSE IF MaxValueOf(markup) = 0
    THEN [raised |-> "ZeroDivisionError", marks |-> << >>]
  ELSE [raised |-> "none",
        marks |-> [c \in GridCells |->
                     Colour(MaxValueOf(markup), GetItem(markup, c).val, channel)]]

\* An argument left out of a call: Python's None as a markup-style value.
PyNone == [type |-> "NoneType", val |-> 0]

\* `not v` for v None or an integer: true for None and for 0.
Not(v) == v.type = "NoneType" \/ (v.type = "int" /\ v.val = 0)

\* ColorizedMarkup(grid, channel).colorize_dijkstra(start_row, start_column):
\* a coordinate for which `not` holds is replaced by the centre's; root_cell
\* is the cell handed to DijkstraMarkup, raised and marks the outcome of
\* intensity_colorize on that markup.
colorize_dijkstra(tbl, start_row, start_column, channel) ==
  LET row == IF Not(start_row) THEN num_rows \div 2 ELSE start_row.val
      column == IF Not(start_column) THEN num_columns \div 2 ELSE start_column.val
      start_cell == cell_at(row, column)
      out == intensity_colorize(DijkstraMarkup(tbl, start_cell), channel)
  IN  [root_cell |-> start_cell, raised |-> out.raised, marks |-> out.marks]

ColorizeDijkstra(start_row, start_column, channel) ==
  /\ pc = "idle"
  /\ pc' = "colorize_dijkstra"
  /\ args' = <<start_row, start_column, channel>>
  /\ result' = colorize_dijkstra(links, start_row, start_column, channel)
  /\ UNCHANGED <<grid_vars, links, ncalls, oneway, locals>>

IntensityColorize(markup, channel) ==
  /\ pc = "idle"
  /\ pc' = "intensity_colorize"
  /\ args' = <<markup, channel>>
  /\ result' = intensity_colorize(markup, channel)
  /\ UNCHANGED <<grid_vars, links, ncalls, oneway, locals>>

\* The markups given: no mark, or an integer for every cell.
Markups ==
  {Markup(PyInt(0))} \cup
  {[marks |-> [c \in GridCells |-> PyInt(f[c])], default |-> PyInt(0)] :
     f \in [GridCells -> 0 .. MaxValue]}

InitC ==
  \E nr \in 1 .. CMaxCells : \E nc \in 1 .. CMaxCells :
    /\ nr * nc <= CMaxCells
    /\ InitGrid(nr, nc)

\* The coordinates given to colorize_dijkstra: left out, or in range.
RowArgs == {PyNone} \cup {PyInt(r) : r \in 0 .. num_rows - 1}

ColumnArgs == {PyNone} \cup {PyInt(c) : c \in 0 .. num_columns - 1}

NextC ==
  \/ \E markup \in Markups : \E channel \in {"R", "G", "B"} :
       IntensityColorize(markup, channel)
  \/ \E start_row \in RowArgs : \E start_column \in ColumnArgs :
       \E channel \in {"R", "G", "B"} :
         ColorizeDijkstra(start_row, start_column, channel)

SpecC == InitC /\ [][NextC]_vars

\* C18: intensity_colorize, given a markup in which all cells share one
\* distance value (the value 0 included), ends in no error and assigns every
\* cell a colour triple.
C18_IntensityColorizeNeverFaults ==
  (/\ pc = "intensity_colorize"
   /\ \E v \in 0 .. MaxValue : \A c \in GridCells :
        /\ c \in DOMAIN args[1].marks
        /\ PyEq(args[1].marks[c], PyInt(v))) =>
     /\ result.raised = "none"
     /\ \A c \in GridCells :
          /\ c \in DOMAIN result.marks
          /\ result.marks[c] \in [1 .. 3 -> 0 .. 255]

\* ------------------------------------------------------------ C19, C20
\* No cell occurs twice in the list.
NoDuplicates(seq) ==
  \A m \in 1 .. Len(seq) : \A n \in 1 .. Len(seq) : seq[m] = seq[n] => m = n

\* C19: in every step of recursive_backtracker a direction is treated as
\* blocked (its flag is set or there is no neighbour, so no push that way)
\* exactly when the neighbour of the stack top in that direction is absent or
\* already visited; so the cell pushed was never visited before, and visited
\* never holds a cell twice.
C19_BlockedIffAbsentOrVisited ==
  /\ NoDuplicates(visited)
  /\ (pc = "rb_loop" /\ stack # << >> /\ Len(visited) < size(num_rows, num_columns)) =>
       \A r \in 1 .. 4 :
         LET top == stack[Len(stack)]
             nb == Neighbour(top, r)
         IN  (FlagOf(Flags(top, visited), r) \/ nb = None) <=>
               (nb = None \/ nb \in Range(visited))

\* C20: recursive_backtracker terminates: while cells remain unvisited it is
\* never in a state in which no draw lets it push a neighbour or pop the
\* stack, and it never indexes an empty stack.
C20_BacktrackerNeverStuck ==
  /\ (pc = "rb_loop" /\ Len(visited) < size(num_rows, num_columns)) =>
       ENABLED <<NextRB>>_vars
  /\ pc # "IndexError"

\* ------------------------------------------------------------------ C21
\* The cells of c's row joined to c by an unbroken chain of east-west
\* passages: the run c lies in.
RunOf(tbl, c) ==
  {d \in GridCells :
     /\ d[1] = c[1]
     /\ \A k \in 0 .. num_columns - 2 :
          ((k >= c[2] /\ k < d[2]) \/ (k >= d[2] /\ k < c[2])) =>
            Linked(tbl, <<c[1], k>>, <<c[1], k + 1>>)}

\* C21: after sidewinder on a freshly constructed grid every row but the
\* northernmost is partitioned into runs: consecutive cells of a run are
\* linked east-west, a run that does not end at the final column ends at a
\* cell unlinked from its east neighbour, exactly one cell of each run is
\* linked north and all its other cells are unlinked from north; the
\* northernmost row is one run with every east-west adjacency linked.
C21_SidewinderRuns ==
  (pc = "sidewinder_done") =>
     /\ \A c \in GridCells : east[c] # None =>
          /\ is_linked(links, c, east[c]) \in {"True", "False"}
          /\ is_linked(links, east[c], c) = is_linked(links, c, east[c])
          /\ c[1] = 0 => is_linked(links, c, east[c]) = "True"
     /\ \A c \in GridCells : c[1] >= 1 =>
          /\ is_linked(links, c, north[c]) \in {"True", "False"}
          /\ is_linked(links, north[c], c) = is_linked(links, c, north[c])
          /\ Cardinality({d \in RunOf(links, c) : Linked(links, d, north[d])}) = 1

\* sidewinder has finished on a grid in which a row below the northernmost
\* holds two runs, one of them of two or more cells with a cell unlinked from
\* north.
C21_Witness ==
  /\ pc = "sidewinder_done"
  /\ \E c \in GridCells : \E d \in GridCells :
       /\ c[1] >= 1
       /\ d[1] = c[1]
       /\ east[c] # None
       /\ ~Linked(links, c, east[c])
       /\ east[d] # None
       /\ Linked(links, d, east[d])
       /\ ~Linked(links, d, north[d])

\* ------------------------------------------------------------------ C22
\* The adjacent pairs joined by a passage, each pair counted once.
LinkedPairs(tbl) ==
  {pr \in GridCells \X GridCells :
     pr[2] \in {east[pr[1]], south[pr[1]]} /\ Linked(tbl, pr[1], pr[2])}

\* C22: throughout wilson, visited and unvisited are duplicate-free, disjoint
\* and together hold every cell; after each loop erasure the walk's path
\* holds no cell twice and all its cells but the last are unvisited (the walk
\* goes on only while the last is unvisited too), so every removal from
\* unvisited succeeds; at the end of every outer iteration the number of
\* linked adjacent pairs is len(visited) - 1.
C22_WilsonListsAndTree ==
  /\ pc # "ValueError"
  /\ (pc \in {"wilson_loop", "wilson_walk", "wilson_done"}) =>
       /\ NoDuplicates(visited)
       /\ NoDuplicates(unvisited)
       /\ Range(visited) \cap Range(unvisited) = {}
       /\ Range(visited) \cup Range(unvisited) = GridCells
  /\ (pc = "wilson_walk") =>
       /\ NoDuplicates(path)
       /\ i = Len(path) - 1
       /\ Range(path) \subseteq Range(unvisited)
  /\ (pc \in {"wilson_loop", "wilson_done"}) =>
       /\ Cardinality(LinkedPairs(links)) = Len(visited) - 1
       /\ \A a \in GridCells : \A b \in GridCells :
            Linked(links, a, b) <=> Linked(links, b, a)
       /\ path # << >> =>
            /\ NoDuplicates(path)
            /\ path[Len(path)] \in Range(visited)

\* A walk of three or more cells has been carved and cells remain unvisited.
C22_Witness ==
  /\ pc = "wilson_loop"
  /\ Len(path) >= 3
  /\ Len(visited) >= 3
  /\ unvisited # << >>

\* ------------------------------------------------------------------ C23
\* C23: colorize_dijkstra(start_row, start_column) uses the centre's
\* coordinate (num_rows // 2, num_columns // 2) only for a coordinate that was
\* not supplied; with a supplied in-range coordinate, 0 included, the
\* distances are rooted at cell_at(start_row, start_column).
C23_ColorizeRootedAtSuppliedCell ==
  (pc = "colorize_dijkstra") =>
     result.root_cell =
       <<IF args[1].type = "NoneType" THEN num_rows \div 2 ELSE args[1].val,
         IF args[2].type = "NoneType" THEN num_columns \div 2 ELSE args[2].val>>

====
